---- MODULE Spec2Model ----
(***************************************************************************)
(* Nightscout LibreLink Up uploader (src/src/index.ts).                    *)
(*                                                                         *)
(* State: the module-level session cache (authTicket, userId), the         *)
(* configuration, the clock, the downstream store, and for every cycle     *)
(* (one call of main()) the request it is suspended on, the response in    *)
(* flight, its locals, the requests it has sent and the error lines it has *)
(* logged.  One action per continuation of the code between two awaited    *)
(* network calls.                                                          *)
(***************************************************************************)
EXTENDS Integers, Sequences, FiniteSets, TLC

\* ------------------------------------------------------------------ bounds
MaxCycles == 2      \* calls of main() in one run
MaxTime == 2        \* clock values 1..MaxTime (seconds, abstract)
MaxTs == 2          \* reading timestamps 1..MaxTs in a cycle's feed
MaxHist == 1        \* historical graph points in a cycle's feed
MaxConns == 2       \* entries of a connections response
MaxFmtTs == 3       \* reading timestamps 1..MaxFmtTs of the formatting inputs
MaxFmtHist == 2     \* historical graph points of the formatting inputs

\* ------------------------------------------------------------ value domains
Cycles == 1..MaxCycles
Timestamps == 1..MaxTs
Null == "null"
Token == "tok"
UserId == "user"
PatientIds == {"p1", "p2"}
ConfiguredIds == {"", "p1", "p3"}
TrendArrows == {3}
Values == {100}

RECURSIVE SeqsUpTo(_, _)
SeqsUpTo(S, n) ==
  IF n = 0 THEN {<<>>}
  ELSE LET shorter == SeqsUpTo(S, n - 1)
       IN shorter \cup {Append(s, x) : s \in {t \in shorter : Len(t) = n - 1}, x \in S}

Max(S) == CHOOSE m \in S : \A x \in S : x <= m

\* ------------------------------------------------------- session cache
\* index.ts:82 and index.ts:314, the empty ticket
EmptyAuthTicket == [duration |-> 0, expires |-> 0, token |-> ""]

\* index.ts:341-348
hasValidAuthentication_Inclusive(ticket, currentTime) == currentTime <= ticket.expires

hasValidAuthentication(ticket, currentTime) == currentTime < ticket.expires

\* index.ts:333-339
getAuthenticationToken(ticket) == IF ticket.token # "" THEN ticket.token ELSE Null

\* index.ts:294-311: the Authorization and account-id headers of a request
getLluAuthHeaders(ticket, uid) ==
  [Authorization |-> <<"Bearer", getAuthenticationToken(ticket)>>,
   accountId |-> <<"sha256", uid>>]

\* --------------------------------------------------- connection resolver
\* index.ts:215-217, Array.prototype.find: the first entry that matches
RECURSIVE find(_, _)
find(connectionData, id) ==
  IF connectionData = <<>> THEN Null
  ELSE IF Head(connectionData).patientId = id THEN Head(connectionData).patientId
  ELSE find(Tail(connectionData), id)

\* index.ts:194-225: the patientId picked from a connections response, or Null
resolveConnection_ConfigFirst(connectionData, linkUpConnection) ==
  IF Len(connectionData) = 0 THEN Null
  ELSE IF linkUpConnection = "" THEN connectionData[1].patientId
  ELSE find(connectionData, linkUpConnection)

resolveConnection_LastWhenUnset(connectionData, linkUpConnection) ==
  IF Len(connectionData) = 0 THEN Null
  ELSE IF Len(connectionData) = 1 THEN connectionData[1].patientId
  ELSE IF linkUpConnection = "" THEN connectionData[Len(connectionData)].patientId
  ELSE find(connectionData, linkUpConnection)

resolveConnection(connectionData, linkUpConnection) ==
  IF Len(connectionData) = 0 THEN Null
  ELSE IF Len(connectionData) = 1 THEN connectionData[1].patientId
  ELSE IF linkUpConnection = "" THEN connectionData[1].patientId
  ELSE find(connectionData, linkUpConnection)

\* index.ts:196-222: the error line the resolver logs, if any
resolveError(connectionData, linkUpConnection) ==
  IF Len(connectionData) = 0 THEN <<"No LibreLink Up connection found">>
  ELSE IF resolveConnection(connectionData, linkUpConnection) = Null
       THEN <<"The specified Patient-ID was not found.">>
       ELSE <<>>

\* ----------------------------------------------------- dedup/format stage
\* helpers mapTrendArrow: the Nightscout direction of a LibreLink trend arrow
mapTrendArrow(arrow) ==
  CASE arrow = 1 -> "SingleDown"
    [] arrow = 2 -> "FortyFiveDown"
    [] arrow = 3 -> "Flat"
    [] arrow = 4 -> "FortyFiveUp"
    [] arrow = 5 -> "SingleUp"
    [] OTHER -> "NOT COMPUTABLE"

\* index.ts:244 and index.ts:254: lastEntry === null || date > lastEntry.date
isNewer_OrEqual(date, lastEntry) == lastEntry.isNull \/ date >= lastEntry.date

isNewer(date, lastEntry) == lastEntry.isNull \/ date > lastEntry.date

\* index.ts:252-260: the forEach over graphData, pushing onto acc
RECURSIVE pushHistory_Unshift(_, _, _)
pushHistory_Unshift(acc, graphData, lastEntry) ==
  IF graphData = <<>> THEN acc
  ELSE LET entry == Head(graphData)
           next == IF lastEntry.isNull \/ entry.FactoryTimestamp > lastEntry.date
                   THEN <<[date |-> entry.FactoryTimestamp,
                           sgv |-> entry.ValueInMgPerDl]>> \o acc
                   ELSE acc
       IN pushHistory_Unshift(next, Tail(graphData), lastEntry)

RECURSIVE pushHistory(_, _, _)
pushHistory(acc, graphData, lastEntry) ==
  IF graphData = <<>> THEN acc
  ELSE LET entry == Head(graphData)
           next == IF isNewer(entry.FactoryTimestamp, lastEntry)
                   THEN Append(acc, [date |-> entry.FactoryTimestamp,
                                     sgv |-> entry.ValueInMgPerDl])
                   ELSE acc
       IN pushHistory(next, Tail(graphData), lastEntry)

\* index.ts:244-250: the current reading, pushed first
pushCurrent(glucoseMeasurement, lastEntry) ==
  IF isNewer(glucoseMeasurement.FactoryTimestamp, lastEntry)
  THEN <<[date |-> glucoseMeasurement.FactoryTimestamp,
          direction |-> mapTrendArrow(glucoseMeasurement.TrendArrow),
          sgv |-> glucoseMeasurement.ValueInMgPerDl]>>
  ELSE <<>>

\* index.ts:238-263, given the result of lastEntry() (isNull in all-data mode)
createFormattedMeasurements(measurementData, lastEntry) ==
  pushHistory(pushCurrent(measurementData.connection.glucoseMeasurement, lastEntry),
              measurementData.graphData, lastEntry)

\* ------------------------------------------------------------------ state
VARIABLES
  config,        \* readConfig(): singleShot, allData, linkUpConnection
  now,           \* Math.floor(Date.now() / 1000)
  authTicket,    \* index.ts:82
  userId,        \* index.ts:83
  nightscout,    \* dates of the entries stored downstream
  startStatus,   \* the promise of start(): "init", "awaiting", "resolved", "rejected"
  scheduled,     \* cron.schedule() has registered the tick callback
  process,       \* "running" or "exited"
  started,       \* calls of main() so far
  lastTick,      \* the clock at the latest cron tick
  pc,            \* per cycle: the call it is suspended on
  resp,          \* per cycle: the response in flight to it
  local,         \* per cycle: connectionId, measurementData, formattedMeasurements
  calls,         \* per cycle: the requests it has sent, in order
  logs,          \* per cycle: the error lines it has logged, in order
  result,        \* per cycle: the promise of main(): "pending", "resolved", "rejected"
  loginRequired, \* history: a login/connections/graph request failed and no login succeeded since
  fmtArgs,       \* formatting run: measurementData and lastEntry given to the stage
  fmtOut         \* formatting run: what the stage returned

vars == <<config, now, authTicket, userId, nightscout, startStatus, scheduled, process,
          started, lastTick, pc, resp, local, calls, logs, result, loginRequired, fmtArgs, fmtOut>>

NoResp == [type |-> "none"]
NoLocal == [connectionId |-> Null, measurementData |-> Null, formattedMeasurements |-> <<>>]
NoLastEntry == [isNull |-> TRUE, date |-> 0]
NotRun == [state |-> "none"]

\* -------------------------------------------------------- response domains
TicketDurations == {1, 2}

LoginResponses(t) ==
  {[type |-> "error"],
   [type |-> "data", status |-> 2, redirect |-> FALSE, region |-> ""],
   [type |-> "data", status |-> 0, redirect |-> TRUE, region |-> "eu"]}
  \cup {[type |-> "data", status |-> 0, redirect |-> FALSE, region |-> "",
         authTicket |-> [duration |-> d, expires |-> t + d, token |-> Token],
         user |-> [id |-> UserId]] : d \in TicketDurations}

Connections == [patientId : PatientIds]

ConnectionsResponses ==
  {[type |-> "error"]} \cup {[type |-> "data", data |-> l] : l \in SeqsUpTo(Connections, MaxConns)}

Readings(maxTs) == [FactoryTimestamp : 1..maxTs, ValueInMgPerDl : Values]

GraphDatas(maxTs, maxHist) ==
  {[connection |-> [glucoseMeasurement |-> [FactoryTimestamp |-> r.FactoryTimestamp,
                                            ValueInMgPerDl |-> r.ValueInMgPerDl,
                                            TrendArrow |-> a]],
    graphData |-> h] :
      r \in Readings(maxTs), a \in TrendArrows, h \in SeqsUpTo(Readings(maxTs), maxHist)}

GraphResponses ==
  {[type |-> "error"]} \cup {[type |-> "data", data |-> g] : g \in GraphDatas(MaxTs, MaxHist)}

\* nightscout client lastEntry(): null on an empty store, else the latest entry
lastEntry(stored) ==
  IF stored = {} THEN NoLastEntry ELSE [isNull |-> FALSE, date |-> Max(stored)]

\* nightscout client uploadEntries(entries): the store after a successful upload
uploadEntries(stored, entries) == stored \cup {entries[i].date : i \in 1..Len(entries)}

\* ------------------------------------------------------------------- Init
Configs == [singleShot : BOOLEAN, allData : BOOLEAN, linkUpConnection : ConfiguredIds]

MainInit ==
  /\ config \in Configs
  /\ now = 1
  /\ authTicket = EmptyAuthTicket
  /\ userId = ""
  /\ nightscout \in {{}} \cup {{w} : w \in Timestamps}
  /\ startStatus = "init"
  /\ scheduled = FALSE
  /\ process = "running"
  /\ started = 0
  /\ lastTick = 0
  /\ pc = [c \in Cycles |-> "idle"]
  /\ resp = [c \in Cycles |-> NoResp]
  /\ local = [c \in Cycles |-> NoLocal]
  /\ calls = [c \in Cycles |-> <<>>]
  /\ logs = [c \in Cycles |-> <<>>]
  /\ result = [c \in Cycles |-> "pending"]
  /\ loginRequired = FALSE

Init ==
  /\ MainInit
  /\ fmtArgs = NotRun
  /\ fmtOut = NotRun

\* ------------------------------------------------- handlers' pure decisions
\* index.ts:313-315 with index.ts:321-323: deleteAuthTicket(); deleteAccountId()
clearedCache == [authTicket |-> EmptyAuthTicket, userId |-> ""]

keptCache(ticket, uid) == [authTicket |-> ticket, userId |-> uid]

\* index.ts:120-153: the ticket login() returns, <<>> for null.  A request error
\* reaches login() as a resolved value (the interceptor of index.ts:57-67
\* returns the error), so response.data is undefined, line 136 throws and the
\* catch of line 150 returns null.
loginTicket(response) ==
  IF response.type = "error" THEN <<>>
  ELSE IF response.status # 0 THEN <<>>
  ELSE IF response.redirect /\ response.region # "" THEN <<>>
  ELSE <<response.authTicket>>

\* index.ts:148: the account id after login()
loginAccountId(response, uid) ==
  IF loginTicket(response) = <<>> THEN uid ELSE response.user.id

\* index.ts:137, 142, 151: the error line login() logs
loginError(response) ==
  IF response.type = "error" THEN <<"Invalid credentials">>
  ELSE IF response.status # 0 THEN <<"LibreLink Up - Non-zero status code">>
  ELSE IF response.redirect /\ response.region # ""
       THEN <<"LibreLink Up - Logged in to the wrong region">>
       ELSE <<>>

\* index.ts:99-104: the cache main() leaves when login() returned null
cacheOnLoginFailure_Kept(ticket, uid) == keptCache(ticket, uid)

cacheOnLoginFailure(ticket, uid) == clearedCache

\* index.ts:226-231: the cache after the catch of getLibreLinkUpConnection()
cacheOnConnectionsError(ticket, uid) == clearedCache

\* index.ts:196-199, 219-222 and 161-163: the resolver returns null, the
\* fetcher returns null, main() returns; nothing touches the cache
cacheOnResolveFailure_Cleared(ticket, uid) == clearedCache

cacheOnResolveFailure(ticket, uid) == keptCache(ticket, uid)

\* index.ts:174-179: the cache after the catch of getGlucoseMeasurements()
cacheOnGraphError_TicketOnly(ticket, uid) == [authTicket |-> EmptyAuthTicket, userId |-> uid]

cacheOnGraphError(ticket, uid) == clearedCache

\* index.ts:273-275: the catch of uploadToNightScout() only logs
cacheOnUploadError_Cleared(ticket, uid) == clearedCache

cacheOnUploadError(ticket, uid) == keptCache(ticket, uid)

\* index.ts:161: if (!connectionId) return null
connectionMissing_Never(connectionId) == FALSE

connectionMissing(connectionId) == connectionId = Null \/ connectionId = ""

\* index.ts:242: config.allData ? null : await nightscoutClient.lastEntry()
skipsLastEntry_Never(allData) == FALSE

skipsLastEntry(allData) == allData

\* index.ts:268: if (formattedMeasurements.length > 0)
hasNewMeasurements_Always(formattedMeasurements) == TRUE

hasNewMeasurements(formattedMeasurements) == Len(formattedMeasurements) > 0

\* ------------------------------------------------------- cycle bookkeeping
\* the cycle suspends on the request `call`
Send(c, op, call, loc) ==
  /\ pc' = [pc EXCEPT ![c] = op]
  /\ resp' = [resp EXCEPT ![c] = NoResp]
  /\ local' = [local EXCEPT ![c] = loc]
  /\ calls' = [calls EXCEPT ![c] = Append(@, call)]
  /\ UNCHANGED <<result, process>>

\* index.ts:355 and 359-361: a rejection of main() reaches the caller of
\* start() in single-shot mode; the tick callback catches and logs it
exitsOnRejection_Always(singleShot) == TRUE

exitsOnRejection(singleShot) == singleShot

\* main() settles; in single-shot mode start() awaits it (index.ts:355) and a
\* rejection of start() ends the process (part_000:12-15, server.ts:13)
EndCycle(c, outcome) ==
  /\ pc' = [pc EXCEPT ![c] = "done"]
  /\ resp' = [resp EXCEPT ![c] = NoResp]
  /\ local' = [local EXCEPT ![c] = NoLocal]
  /\ result' = [result EXCEPT ![c] = outcome]
  /\ startStatus' = IF config.singleShot THEN outcome ELSE startStatus
  /\ process' = IF exitsOnRejection(config.singleShot) /\ outcome = "rejected"
                THEN "exited" ELSE process
  /\ UNCHANGED calls

\* index.ts:186-192: the connections request, headers read from the cache now
SendConnections(c, ticket, uid) ==
  Send(c, "connections",
       [op |-> "connections", headers |-> getLluAuthHeaders(ticket, uid)], local[c])

\* index.ts:265-279 after createFormattedMeasurements() returned
Deliver(c, measurementData, formattedMeasurements) ==
  IF hasNewMeasurements(formattedMeasurements)
  THEN /\ Send(c, "uploadEntries", [op |-> "uploadEntries"],
               [NoLocal EXCEPT !.formattedMeasurements = formattedMeasurements])
       /\ UNCHANGED startStatus
  ELSE EndCycle(c, "resolved")

\* ---------------------------------------------------------------- actions
\* index.ts:93-98 or 93-94, 108, 156-160, 182-192: main() up to its first request
BeginMain(c) ==
  /\ pc[c] = "idle"
  /\ IF hasValidAuthentication(authTicket, now)
     THEN /\ SendConnections(c, authTicket, userId)
          /\ UNCHANGED <<authTicket, userId>>
     ELSE /\ authTicket' = clearedCache.authTicket
          /\ userId' = clearedCache.userId
          /\ Send(c, "login", [op |-> "login"], local[c])
  /\ UNCHANGED <<config, now, nightscout, logs, loginRequired, fmtArgs, fmtOut>>

\* index.ts:351-363: start()
Start_RunsMainThenSchedules ==
  /\ startStatus = "init"
  /\ process = "running"
  /\ BeginMain(1)
  /\ started' = 1
  /\ IF config.singleShot
     THEN /\ startStatus' = "awaiting"
          /\ UNCHANGED <<scheduled, lastTick>>
     ELSE /\ scheduled' = TRUE
          /\ startStatus' = "resolved"
          /\ UNCHANGED lastTick

Start ==
  /\ startStatus = "init"
  /\ process = "running"
  /\ IF config.singleShot
     THEN /\ BeginMain(1)
          /\ started' = 1
          /\ startStatus' = "awaiting"
          /\ UNCHANGED <<scheduled, lastTick>>
     ELSE /\ scheduled' = TRUE
          /\ startStatus' = "resolved"
          /\ UNCHANGED <<config, now, authTicket, userId, nightscout, process, started, lastTick, pc,
                         resp, local, calls, logs, result, loginRequired, fmtArgs, fmtOut>>

\* index.ts:357-361: a cron tick calls main(), whatever the earlier cycles do;
\* ticks are minutes apart, so the clock has moved since the last one
CronTick ==
  /\ scheduled
  /\ process = "running"
  /\ started < MaxCycles
  /\ now > lastTick
  /\ BeginMain(started + 1)
  /\ started' = started + 1
  /\ lastTick' = now
  /\ UNCHANGED <<startStatus, scheduled>>

\* the clock
Tick ==
  /\ process = "running"
  /\ now < MaxTime
  /\ now' = now + 1
  /\ UNCHANGED <<config, authTicket, userId, nightscout, startStatus, scheduled, process,
                 started, lastTick, pc, resp, local, calls, logs, result, loginRequired, fmtArgs, fmtOut>>

\* the upstream API answers the request a cycle is suspended on
UpstreamReply(c) ==
  /\ process = "running"
  /\ pc[c] \in {"login", "connections", "graph"}
  /\ resp[c] = NoResp
  /\ \E r \in (CASE pc[c] = "login" -> LoginResponses(now)
                 [] pc[c] = "connections" -> ConnectionsResponses
                 [] pc[c] = "graph" -> GraphResponses) :
       resp' = [resp EXCEPT ![c] = r]
  /\ UNCHANGED <<config, now, authTicket, userId, nightscout, startStatus, scheduled, process,
                 started, lastTick, pc, local, calls, logs, result, loginRequired, fmtArgs, fmtOut>>

\* the downstream store answers lastEntry()
LastEntryReply(c) ==
  /\ process = "running"
  /\ pc[c] = "lastEntry"
  /\ resp[c] = NoResp
  /\ \E r \in {[type |-> "error"], [type |-> "data", data |-> lastEntry(nightscout)]} :
       resp' = [resp EXCEPT ![c] = r]
  /\ UNCHANGED <<config, now, authTicket, userId, nightscout, startStatus, scheduled, process,
                 started, lastTick, pc, local, calls, logs, result, loginRequired, fmtArgs, fmtOut>>

\* the downstream store answers uploadEntries(entries)
UploadReply(c) ==
  /\ process = "running"
  /\ pc[c] = "uploadEntries"
  /\ resp[c] = NoResp
  /\ \/ /\ resp' = [resp EXCEPT ![c] = [type |-> "error"]]
        /\ UNCHANGED nightscout
     \/ /\ resp' = [resp EXCEPT ![c] = [type |-> "data"]]
        /\ nightscout' = uploadEntries(nightscout, local[c].formattedMeasurements)
  /\ UNCHANGED <<config, now, authTicket, userId, startStatus, scheduled, process,
                 started, lastTick, pc, local, calls, logs, result, loginRequired, fmtArgs, fmtOut>>

\* index.ts:98-108 and on to 192: login() returns to main()
LoginReturn(c) ==
  /\ process = "running"
  /\ pc[c] = "login"
  /\ resp[c] # NoResp
  /\ LET newAuthTicket == loginTicket(resp[c])
         uid == loginAccountId(resp[c], userId)
     IN IF newAuthTicket = <<>>
        THEN /\ authTicket' = cacheOnLoginFailure(authTicket, uid).authTicket
             /\ userId' = cacheOnLoginFailure(authTicket, uid).userId
             /\ logs' = [logs EXCEPT ![c] = @ \o loginError(resp[c])
                                              \o <<"LibreLink Up - No AuthTicket received">>]
             /\ loginRequired' = TRUE
             /\ EndCycle(c, "resolved")
        ELSE /\ authTicket' = newAuthTicket[1]
             /\ userId' = uid
             /\ loginRequired' = FALSE
             /\ SendConnections(c, newAuthTicket[1], uid)
             /\ UNCHANGED <<logs, startStatus>>
  /\ UNCHANGED <<config, now, nightscout, scheduled, started, lastTick, fmtArgs, fmtOut>>

\* index.ts:194-232, 160-171: the connections response, up to the graph request
ConnectionsReturn(c) ==
  /\ process = "running"
  /\ pc[c] = "connections"
  /\ resp[c] # NoResp
  /\ IF resp[c].type = "error"
     THEN /\ authTicket' = cacheOnConnectionsError(authTicket, userId).authTicket
          /\ userId' = cacheOnConnectionsError(authTicket, userId).userId
          /\ logs' = [logs EXCEPT ![c] = Append(@, "getting libreLinkUpConnection")]
          /\ loginRequired' = TRUE
          /\ EndCycle(c, "resolved")
     ELSE LET connectionId == resolveConnection(resp[c].data, config.linkUpConnection)
          IN IF connectionMissing(connectionId)
             THEN /\ authTicket' = cacheOnResolveFailure(authTicket, userId).authTicket
                  /\ userId' = cacheOnResolveFailure(authTicket, userId).userId
                  /\ logs' = [logs EXCEPT ![c] =
                                @ \o resolveError(resp[c].data, config.linkUpConnection)]
                  /\ EndCycle(c, "resolved")
                  /\ UNCHANGED loginRequired
             ELSE /\ Send(c, "graph",
                          [op |-> "graph", headers |-> getLluAuthHeaders(authTicket, userId)],
                          [local[c] EXCEPT !.connectionId = connectionId])
                  /\ logs' = [logs EXCEPT ![c] =
                                @ \o resolveError(resp[c].data, config.linkUpConnection)]
                  /\ UNCHANGED <<authTicket, userId, loginRequired, startStatus>>
  /\ UNCHANGED <<config, now, nightscout, scheduled, started, lastTick, fmtArgs, fmtOut>>

\* index.ts:173-179, 108-114, 265-266, 238-242: the graph response, up to the
\* lastEntry() request, or in all-data mode up to the upload
GraphReturn(c) ==
  /\ process = "running"
  /\ pc[c] = "graph"
  /\ resp[c] # NoResp
  /\ IF resp[c].type = "error"
     THEN /\ authTicket' = cacheOnGraphError(authTicket, userId).authTicket
          /\ userId' = cacheOnGraphError(authTicket, userId).userId
          /\ logs' = [logs EXCEPT ![c] = Append(@, "Error getting glucose measurements")]
          /\ loginRequired' = TRUE
          /\ EndCycle(c, "resolved")
     ELSE /\ IF skipsLastEntry(config.allData)
             THEN Deliver(c, resp[c].data,
                          createFormattedMeasurements(resp[c].data, NoLastEntry))
             ELSE /\ Send(c, "lastEntry", [op |-> "lastEntry"],
                          [NoLocal EXCEPT !.measurementData = resp[c].data])
                  /\ UNCHANGED startStatus
          /\ UNCHANGED <<authTicket, userId, logs, loginRequired>>
  /\ UNCHANGED <<config, now, nightscout, scheduled, started, lastTick, fmtArgs, fmtOut>>

\* index.ts:242-279: lastEntry() settles; its rejection is caught nowhere in
\* main(), in recurring mode the tick callback logs it (index.ts:360)
LastEntryReturn(c) ==
  /\ process = "running"
  /\ pc[c] = "lastEntry"
  /\ resp[c] # NoResp
  /\ IF resp[c].type = "error"
     THEN /\ logs' = [logs EXCEPT ![c] = IF config.singleShot THEN @
                                         ELSE Append(@, "Erro na execucao do worker")]
          /\ EndCycle(c, "rejected")
     ELSE /\ Deliver(c, local[c].measurementData,
                     createFormattedMeasurements(local[c].measurementData, resp[c].data))
          /\ UNCHANGED logs
  /\ UNCHANGED <<config, now, authTicket, userId, nightscout, scheduled, started, lastTick,
                 loginRequired, fmtArgs, fmtOut>>

\* index.ts:271-275: uploadEntries() settles
UploadReturn(c) ==
  /\ process = "running"
  /\ pc[c] = "uploadEntries"
  /\ resp[c] # NoResp
  /\ IF resp[c].type = "error"
     THEN /\ authTicket' = cacheOnUploadError(authTicket, userId).authTicket
          /\ userId' = cacheOnUploadError(authTicket, userId).userId
          /\ logs' = [logs EXCEPT ![c] = Append(@, "Upload to NightScout failed")]
     ELSE UNCHANGED <<authTicket, userId, logs>>
  /\ EndCycle(c, "resolved")
  /\ UNCHANGED <<config, now, nightscout, scheduled, started, lastTick, loginRequired,
                 fmtArgs, fmtOut>>

Next ==
  \/ Start
  \/ CronTick
  \/ Tick
  \/ \E c \in Cycles : UpstreamReply(c)
  \/ \E c \in Cycles : LastEntryReply(c)
  \/ \E c \in Cycles : UploadReply(c)
  \/ \E c \in Cycles : LoginReturn(c)
  \/ \E c \in Cycles : ConnectionsReturn(c)
  \/ \E c \in Cycles : GraphReturn(c)
  \/ \E c \in Cycles : LastEntryReturn(c)
  \/ \E c \in Cycles : UploadReturn(c)

Spec == Init /\ [][Next]_vars

\* The process does not halt while something can happen: the event loop runs
\* a handler once its response has arrived, node-cron fires the scheduled
\* ticks and the clock advances (index.ts:357-361), and every request is
\* answered, with a result or an error.
Fairness == WF_vars(Next)

SpecLive == Init /\ [][Next]_vars /\ Fairness

\* ------------------------------------------- the formatting stage on its own
LastEntries(maxTs) == {NoLastEntry} \cup {[isNull |-> FALSE, date |-> w] : w \in 1..maxTs}

FormatInit ==
  /\ MainInit
  /\ config = [singleShot |-> TRUE, allData |-> FALSE, linkUpConnection |-> ""]
  /\ nightscout = {}
  /\ fmtArgs \in [state : {"called"},
                  measurementData : GraphDatas(MaxFmtTs, MaxFmtHist),
                  lastEntry : LastEntries(MaxFmtTs)]
  /\ fmtOut = NotRun

Format ==
  /\ fmtOut = NotRun
  /\ fmtOut' = [state |-> "returned",
                entries |-> createFormattedMeasurements(fmtArgs.measurementData,
                                                        fmtArgs.lastEntry)]
  /\ UNCHANGED <<config, now, authTicket, userId, nightscout, startStatus, scheduled,
                 process, started, lastTick, pc, resp, local, calls, logs, result, loginRequired,
                 fmtArgs>>

FormatNext == Format

SpecFormat == FormatInit /\ [][FormatNext]_vars

\* ================================================================= claims
CacheEmpty == authTicket = EmptyAuthTicket /\ userId = ""

LastOp(c) == calls[c][Len(calls[c])].op

Ops(c) == {calls[c][i].op : i \in DOMAIN calls[c]}

\* cycle c sends a request in this step
Sends(c) == Len(calls'[c]) = Len(calls[c]) + 1

SentOp(c) == calls'[c][Len(calls'[c])].op

\* cycle c's handler consumes the response in flight in this step
Handles(c, op) == pc[c] = op /\ resp[c] # NoResp /\ pc'[c] # op

\* a settled cycle sends nothing more
SettledIsFinal ==
  \A c \in Cycles : pc[c] = "done" => pc'[c] = "done" /\ calls'[c] = calls[c]

\* C1: after a cycle in which the login, the connections request or the graph
\* request failed, the cache is empty at the end of that cycle, and no
\* connections or graph request is sent until a login has succeeded.
C1_FreshLoginAfterFailure ==
  [][\A c \in Cycles :
       /\ (\/ Handles(c, "login") /\ loginTicket(resp[c]) = <<>>
           \/ Handles(c, "connections") /\ resp[c].type = "error"
           \/ Handles(c, "graph") /\ resp[c].type = "error")
          => (pc'[c] = "done" /\ authTicket' = EmptyAuthTicket /\ userId' = "")
       /\ (Sends(c) /\ SentOp(c) \in {"connections", "graph"}) => ~loginRequired']_vars

\* C2 as stated: every end of a cycle at connection resolution (zero
\* connections, a configured ID that matches none, a request error) leaves the
\* session cache cleared.
C2_ResolutionFailureClearsCache ==
  [][\A c \in Cycles :
       (Handles(c, "connections") /\ pc'[c] = "done")
         => (authTicket' = EmptyAuthTicket /\ userId' = "")]_vars

\* the connections response `r` resolves to no patient, by its content
NoConnections(r) == r.type = "data" /\ Len(r.data) = 0

NoMatch(r) ==
  /\ r.type = "data"
  /\ Len(r.data) > 1
  /\ config.linkUpConnection # ""
  /\ \A i \in DOMAIN r.data : r.data[i].patientId # config.linkUpConnection

\* C2 amended: an error of the connections request clears the session cache;
\* zero connections or a configured ID that matches none ends the cycle with
\* the session cache exactly as it was.
C2_OnlyRequestErrorClearsCache ==
  [][\A c \in Cycles :
       Handles(c, "connections") =>
         /\ resp[c].type = "error"
              => (pc'[c] = "done" /\ authTicket' = EmptyAuthTicket /\ userId' = "")
         /\ (NoConnections(resp[c]) \/ NoMatch(resp[c]))
              => (pc'[c] = "done" /\ authTicket' = authTicket /\ userId' = userId)]_vars

C2_Witness ==
  \E c \in Cycles :
    /\ pc[c] = "done"
    /\ logs[c] = <<"The specified Patient-ID was not found.">>
    /\ authTicket.token = Token
    /\ userId = UserId

\* C3: no failure of a step of a cycle leaves main() rejected, start()
\* rejected or the process terminated.
C3_NoFailureEscapesMain ==
  /\ \A c \in Cycles : result[c] # "rejected"
  /\ startStatus # "rejected"
  /\ process = "running"

\* the timestamps > w among the readings of a graph
NewHistory(measurementData, w) ==
  {i \in DOMAIN measurementData.graphData :
     measurementData.graphData[i].FactoryTimestamp > w}

\* C4: with a watermark W, a reading (current or historical) with timestamp T
\* is in the output of createFormattedMeasurements iff T > W.
C4_StrictlyNewerThanWatermark ==
  (fmtOut.state = "returned" /\ ~fmtArgs.lastEntry.isNull) =>
    LET W == fmtArgs.lastEntry.date
        cur == fmtArgs.measurementData.connection.glucoseMeasurement
        hist == fmtArgs.measurementData.graphData
        T == {cur.FactoryTimestamp} \cup {hist[i].FactoryTimestamp : i \in DOMAIN hist}
        out == fmtOut.entries
        emitted == {out[i].date : i \in DOMAIN out}
    IN /\ \A t \in T : t \in emitted <=> t > W
       /\ emitted \subseteq T
       /\ Len(out) = Cardinality(NewHistory(fmtArgs.measurementData, W))
                     + (IF cur.FactoryTimestamp > W THEN 1 ELSE 0)

\* watermark 2, readings 1, 2 (history) and 3 (current): only 3 is emitted
C4_Witness ==
  /\ fmtOut.state = "returned"
  /\ fmtArgs.lastEntry = [isNull |-> FALSE, date |-> 2]
  /\ fmtArgs.measurementData.connection.glucoseMeasurement.FactoryTimestamp = 3
  /\ Len(fmtArgs.measurementData.graphData) = 2
  /\ fmtArgs.measurementData.graphData[1].FactoryTimestamp = 1
  /\ fmtArgs.measurementData.graphData[2].FactoryTimestamp = 2
  /\ Len(fmtOut.entries) = 1
  /\ fmtOut.entries[1].date = 3

HistoryEntry(item) == [date |-> item.FactoryTimestamp, sgv |-> item.ValueInMgPerDl]

\* C5: without a watermark the output is the current reading (the only entry
\* with a direction) followed by every historical point in feed order; with
\* one, the emitted historical points keep their feed order and follow the
\* current reading.
C5_CurrentFirstHistoryInOrder ==
  fmtOut.state = "returned" =>
    LET le == fmtArgs.lastEntry
        cur == fmtArgs.measurementData.connection.glucoseMeasurement
        hist == fmtArgs.measurementData.graphData
        out == fmtOut.entries
        curOut == le.isNull \/ cur.FactoryTimestamp > le.date
        rest == IF curOut THEN Tail(out) ELSE out
        Kept(item) == le.isNull \/ item.FactoryTimestamp > le.date
        keptHist == SelectSeq(hist, Kept)
    IN /\ le.isNull => Len(out) = 1 + Len(hist)
       /\ curOut => /\ out # <<>>
                    /\ out[1].date = cur.FactoryTimestamp
                    /\ out[1].sgv = cur.ValueInMgPerDl
                    /\ DOMAIN out[1] = {"date", "direction", "sgv"}
       /\ Len(rest) = Len(keptHist)
       /\ \A i \in DOMAIN rest : rest[i] = HistoryEntry(keptHist[i])

\* no watermark, current reading 1, history 3 then 2: output 1, 3, 2
C5_Witness ==
  /\ fmtOut.state = "returned"
  /\ fmtArgs.lastEntry.isNull
  /\ Len(fmtOut.entries) = 3
  /\ fmtOut.entries[1].date = 1
  /\ fmtOut.entries[1].direction = "Flat"
  /\ fmtOut.entries[2].date = 3
  /\ fmtOut.entries[3].date = 2

\* the entries the stage must emit for a graph and a lastEntry() result, by content
NewCount(measurementData, le) ==
  (IF le.isNull \/ measurementData.connection.glucoseMeasurement.FactoryTimestamp > le.date
   THEN 1 ELSE 0)
  + Cardinality({i \in DOMAIN measurementData.graphData :
                   le.isNull \/ measurementData.graphData[i].FactoryTimestamp > le.date})

\* cycle c runs the formatting stage in this step
Formats(c) ==
  \/ Handles(c, "lastEntry") /\ resp[c].type = "data"
  \/ Handles(c, "graph") /\ resp[c].type = "data" /\ config.allData

FormatInput(c) == IF pc[c] = "graph" THEN resp[c].data ELSE local[c].measurementData

FormatWatermark(c) == IF pc[c] = "graph" THEN NoLastEntry ELSE resp[c].data

\* C6: a cycle calls uploadEntries at most once, exactly when its formatted
\* sequence is non-empty, with every formatted entry in that one call.
C6_UploadOnceIffNonEmpty ==
  /\ [](\A c \in Cycles :
          Cardinality({i \in DOMAIN calls[c] : calls[c][i].op = "uploadEntries"}) <= 1)
  /\ [][\A c \in Cycles :
          /\ Formats(c) =>
               IF NewCount(FormatInput(c), FormatWatermark(c)) > 0
               THEN /\ pc'[c] = "uploadEntries"
                    /\ Sends(c)
                    /\ SentOp(c) = "uploadEntries"
                    /\ Len(local'[c].formattedMeasurements)
                         = NewCount(FormatInput(c), FormatWatermark(c))
               ELSE /\ pc'[c] = "done"
                    /\ calls'[c] = calls[c]
          /\ (Sends(c) /\ SentOp(c) = "uploadEntries") => Formats(c)]_vars

\* a cycle that fetched the watermark, found nothing new and made no upload call
C6_Witness ==
  \E c \in Cycles :
    /\ pc[c] = "done"
    /\ result[c] = "resolved"
    /\ logs[c] = <<>>
    /\ LastOp(c) = "lastEntry"

\* C7: a cycle whose connection resolution fails (zero connections, or several
\* and a configured ID that matches none) ends there: no graph request, no
\* lastEntry(), no upload.
C7_ResolutionFailureStopsCycle ==
  [][/\ \A c \in Cycles :
          (Handles(c, "connections") /\ (NoConnections(resp[c]) \/ NoMatch(resp[c])))
            => /\ pc'[c] = "done"
               /\ calls'[c] = calls[c]
               /\ Ops(c) \cap {"graph", "lastEntry", "uploadEntries"} = {}
     /\ SettledIsFinal]_vars

C7_Witness ==
  \E c \in Cycles :
    /\ pc[c] = "done"
    /\ logs[c] = <<"No LibreLink Up connection found">>
    /\ Ops(c) = {"login", "connections"}

\* C8: a connections response with exactly one entry selects that entry's
\* patientId, whatever LINK_UP_CONNECTION is configured.
C8_SoleConnectionSelected ==
  [][\A c \in Cycles :
       (Handles(c, "connections") /\ resp[c].type = "data" /\ Len(resp[c].data) = 1)
         => /\ pc'[c] = "graph"
            /\ local'[c].connectionId = resp[c].data[1].patientId
            /\ Sends(c)
            /\ SentOp(c) = "graph"]_vars

\* configured "p3", sole connection "p1": the graph of "p1" is requested
C8_Witness ==
  \E c \in Cycles :
    /\ config.linkUpConnection = "p3"
    /\ pc[c] = "graph"
    /\ local[c].connectionId = "p1"

LoginFailure(r) == r.type = "error" \/ (r.type = "data" /\ (r.status # 0 \/ r.redirect))

\* C9: a failed login (non-zero status, region redirect, request error) ends
\* the cycle with no further call and leaves the session cache empty.
C9_FailedLoginEndsCycle ==
  [][/\ \A c \in Cycles :
          (Handles(c, "login") /\ LoginFailure(resp[c]))
            => /\ pc'[c] = "done"
               /\ result'[c] = "resolved"
               /\ calls'[c] = <<[op |-> "login"]>>
               /\ authTicket' = EmptyAuthTicket
               /\ userId' = ""
     /\ SettledIsFinal]_vars

C9_Witness ==
  \E c \in Cycles :
    /\ pc[c] = "done"
    /\ logs[c] = <<"LibreLink Up - Logged in to the wrong region",
                   "LibreLink Up - No AuthTicket received">>
    /\ calls[c] = <<[op |-> "login"]>>
    /\ CacheEmpty

\* C10: a failed upload leaves authTicket and userId as they were, and a cycle
\* that starts while the ticket has not expired sends no login.
C10_UploadFailureKeepsSession ==
  [][\A c \in Cycles :
       /\ (Handles(c, "uploadEntries") /\ resp[c].type = "error")
            => (pc'[c] = "done" /\ authTicket' = authTicket /\ userId' = userId)
       /\ (pc[c] = "idle" /\ pc'[c] # "idle" /\ now < authTicket.expires)
            => (calls'[c] = <<[op |-> "connections",
                               headers |-> getLluAuthHeaders(authTicket, userId)]>>
                /\ authTicket' = authTicket)]_vars

C10_Witness ==
  \E c \in Cycles :
    /\ pc[c] = "done"
    /\ logs[c] = <<"Upload to NightScout failed">>
    /\ authTicket.token = Token
    /\ userId = UserId

\* cycle c has started and main() has not settled
InFlight(c) == pc[c] \notin {"idle", "done"}

\* C11: in recurring mode no two cycles are in flight at the same time.
C11_SingleFlight ==
  ~config.singleShot => Cardinality({c \in Cycles : InFlight(c)}) <= 1

\* C12: authTicket and userId are set and cleared together: in every state,
\* so at the end of every cycle and also while cycles overlap, userId is
\* non-empty iff the ticket's token is non-empty, and an empty ticket is the
\* reset value.  (login() sets userId at index.ts:148 and main() sets the
\* ticket at index.ts:105 in one run of the event loop, with no await between
\* them that another cycle's continuation could enter.)
C12_TicketAndAccountIdTogether ==
  /\ (userId # "") <=> (authTicket.token # "")
  /\ authTicket.token = "" => authTicket = EmptyAuthTicket

\* a graph error ended one cycle and emptied the cache while another is in flight
C12_Witness ==
  \E c, d \in Cycles :
    /\ pc[c] = "done"
    /\ logs[c] = <<"Error getting glucose measurements">>
    /\ InFlight(d)
    /\ CacheEmpty

\* C14: every connections request and every graph request carries a
\* non-empty bearer token.
C14_AuthenticatedRequestsCarryToken ==
  \A c \in Cycles : \A i \in DOMAIN calls[c] :
    calls[c][i].op \in {"connections", "graph"}
      => calls[c][i].headers.Authorization # <<"Bearer", Null>>

\* cycle c starts in this step
Begins(c) == pc[c] = "idle" /\ pc'[c] # "idle"

\* C13: a cycle sends a login request iff the cached ticket is not valid when
\* the cycle starts (now >= expires, so now = expires and the initial expiry
\* 0 are invalid); with a valid ticket it sends no login and starts with the
\* connections request, the cached ticket and account id unchanged; a login
\* is only ever the first request of a cycle.
C13_LoginIffTicketInvalid ==
  [][\A c \in Cycles :
       /\ Begins(c) =>
            IF now >= authTicket.expires
            THEN calls'[c] = <<[op |-> "login"]>>
            ELSE /\ Len(calls'[c]) = 1
                 /\ calls'[c][1].op = "connections"
                 /\ authTicket' = authTicket
                 /\ userId' = userId
       /\ (Sends(c) /\ SentOp(c) = "login") => Begins(c)]_vars

\* cycle 1 logged in and is over; cycle 2 started on the ticket cycle 1 left
C13_Witness ==
  /\ MaxCycles >= 2
  /\ pc[1] = "done"
  /\ calls[1][1].op = "login"
  /\ calls[2] # <<>>
  /\ calls[2][1].op = "connections"
  /\ authTicket.token = Token

\* the configured ID is among the entries of the connections response `r`
Matches(r) == \E i \in DOMAIN r.data : r.data[i].patientId = config.linkUpConnection

\* C16: a connections response with more than one entry selects the first
\* entry's patientId when no LINK_UP_CONNECTION is configured, and the
\* configured patientId when one is configured and an entry carries it.
C16_MultipleConnections ==
  [][\A c \in Cycles :
       (Handles(c, "connections") /\ resp[c].type = "data" /\ Len(resp[c].data) > 1)
         => /\ config.linkUpConnection = ""
                 => /\ pc'[c] = "graph"
                    /\ local'[c].connectionId = resp[c].data[1].patientId
            /\ (config.linkUpConnection # "" /\ Matches(resp[c]))
                 => /\ pc'[c] = "graph"
                    /\ local'[c].connectionId = config.linkUpConnection]_vars

\* configured "p1", returned second of two entries: the response the handler
\* of the connections request is about to resolve
C16_Witness ==
  \E c \in Cycles :
    /\ config.linkUpConnection = "p1"
    /\ pc[c] = "connections"
    /\ resp[c].type = "data"
    /\ Len(resp[c].data) = 2
    /\ resp[c].data[1].patientId = "p2"
    /\ resp[c].data[2].patientId = "p1"

\* the requests of a cycle in the order main() makes them
CallOrder == <<"login", "connections", "graph", "lastEntry", "uploadEntries">>

Rank(op) == CHOOSE i \in DOMAIN CallOrder : CallOrder[i] = op

\* the request that precedes `op` in a cycle; none before the first one
Precedes(op) ==
  CASE op = "login" -> {}
    [] op = "connections" -> {"login"}
    [] op = "graph" -> {"connections"}
    [] op = "lastEntry" -> {"graph"}
    [] op = "uploadEntries" -> IF config.allData THEN {"graph"} ELSE {"lastEntry"}

\* the response cycle c is handling reports a failure of the step `op`
FailedStep(c, op) ==
  CASE op = "login" -> LoginFailure(resp[c])
    [] op = "connections" ->
         resp[c].type = "error" \/ NoConnections(resp[c]) \/ NoMatch(resp[c])
    [] OTHER -> resp[c].type = "error"

\* C15: the calls of one cycle are made in the order login, connections,
\* graph, lastEntry, uploadEntries, each at most once and each right after
\* its predecessor (login only as an optional first call, lastEntry left out
\* exactly in all-data mode); a failed call ends the cycle with no further
\* call, and a cycle that is over makes none.
C15_FixedCallOrder ==
  /\ [](\A c \in Cycles : \A i \in DOMAIN calls[c] :
          /\ \A j \in DOMAIN calls[c] :
               i < j => Rank(calls[c][i].op) < Rank(calls[c][j].op)
          /\ IF i = 1 THEN calls[c][i].op \in {"login", "connections"}
                      ELSE calls[c][i - 1].op \in Precedes(calls[c][i].op))
  /\ [][/\ \A c \in Cycles : \A op \in {CallOrder[i] : i \in DOMAIN CallOrder} :
             (Handles(c, op) /\ FailedStep(c, op))
               => (pc'[c] = "done" /\ calls'[c] = calls[c])
        /\ SettledIsFinal]_vars

\* a cycle that made all five calls, in order, and is over
C15_Witness ==
  \E c \in Cycles :
    /\ pc[c] = "done"
    /\ [i \in DOMAIN calls[c] |-> calls[c][i].op] = CallOrder

\* every timestamp of a graph, current reading and history
AllTimestamps(measurementData) ==
  {measurementData.connection.glucoseMeasurement.FactoryTimestamp}
    \cup {measurementData.graphData[i].FactoryTimestamp : i \in DOMAIN measurementData.graphData}

\* C17: lastEntry() is called at most once per cycle, only by the handler of
\* a successful graph response, and never in all-data mode; in all-data mode
\* the handler of a successful graph response formats every reading of the
\* graph and goes on to the upload with no lastEntry() call.
C17_WatermarkFetch ==
  /\ [](\A c \in Cycles :
          /\ Cardinality({i \in DOMAIN calls[c] : calls[c][i].op = "lastEntry"}) <= 1
          /\ config.allData => "lastEntry" \notin Ops(c))
  /\ [][\A c \in Cycles :
          /\ (Sends(c) /\ SentOp(c) = "lastEntry")
               => (Handles(c, "graph") /\ resp[c].type = "data" /\ ~config.allData)
          /\ (Handles(c, "graph") /\ resp[c].type = "data" /\ config.allData)
               => LET out == local'[c].formattedMeasurements
                  IN /\ pc'[c] = "uploadEntries"
                     /\ SentOp(c) = "uploadEntries"
                     /\ Len(out) = 1 + Len(resp[c].data.graphData)
                     /\ {out[i].date : i \in DOMAIN out} = AllTimestamps(resp[c].data)]_vars

\* all-data mode: a reading at the timestamp Nightscout already holds is
\* formatted for upload, and the cycle never asked for the latest entry
C17_Witness ==
  \E c \in Cycles :
    /\ config.allData
    /\ pc[c] = "uploadEntries"
    /\ Ops(c) = {"login", "connections", "graph", "uploadEntries"}
    /\ \E i \in DOMAIN local[c].formattedMeasurements :
         local[c].formattedMeasurements[i].date \in nightscout

\* start() has returned or thrown
StartSettled == startStatus \in {"resolved", "rejected"}

\* C19: with SINGLE_SHOT set, start() runs main() once, schedules nothing, and
\* settles only when that one cycle is over; without it, start() schedules the
\* cron job and returns without running a cycle, every cycle begins on a tick
\* of the schedule, later than the tick before it, and no outcome of a cycle
\* stops the schedule or keeps the next tick from starting a cycle.
C19_SingleShotOrSchedule ==
  /\ [](IF config.singleShot
        THEN /\ ~scheduled
             /\ started <= 1
             /\ \A c \in Cycles : c > 1 => pc[c] = "idle"
             /\ startStatus = "awaiting" <=> InFlight(1)
             /\ StartSettled <=> pc[1] = "done"
        ELSE /\ startStatus \in {"init", "resolved"}
             /\ scheduled <=> startStatus = "resolved"
             /\ process = "running"
             /\ (scheduled /\ started < MaxCycles /\ now > lastTick) => ENABLED CronTick)
  /\ [][/\ (startStatus = "init" /\ startStatus' # "init") =>
             IF config.singleShot
             THEN started' = 1 /\ Begins(1)
             ELSE scheduled' /\ started' = 0 /\ pc' = pc /\ calls' = calls
        /\ \A c \in Cycles :
             Begins(c) =>
               /\ c = started + 1
               /\ started' = c
               /\ IF config.singleShot
                  THEN startStatus = "init"
                  ELSE scheduled /\ now > lastTick /\ lastTick' = now]_vars

\* recurring mode: the second tick started a cycle after the first cycle's
\* lastEntry() rejected
C19_Witness ==
  /\ ~config.singleShot
  /\ MaxCycles >= 2
  /\ result[1] = "rejected"
  /\ InFlight(2)
  /\ lastTick = now

\* the timestamps of a graph that are newer than the watermark `le`
NewTimestamps(measurementData, le) ==
  {t \in AllTimestamps(measurementData) : le.isNull \/ t > le.date}

Dates(entries) == {entries[i].date : i \in DOMAIN entries}

\* recurring mode: no cycle is in flight, and no further cycle can start
\* only because the cycle budget or the clock of the model is used up
ScheduleRanOut ==
  ~config.singleShot =>
    /\ \A c \in Cycles : ~InFlight(c)
    /\ started = MaxCycles \/ lastTick = MaxTime

====
